---------------------------- MODULE Spec2Model ----------------------------
(***************************************************************************)
(* Model of balQt/tools.py and balQt/rotated_widget.py (rotated-widget).   *)
(*                                                                         *)
(* Numbers.  The code computes with Python floats.  A float is modelled    *)
(* as  tau^e * (a + b*tau)  with a, b exact rationals and tau the          *)
(* rounding residue of pi/2 (math.cos(math.radians(90)) = 6.12e-17): the   *)
(* leading term and the next order are kept, anything smaller is           *)
(* absorbed, and the residue b is kept in whole multiples of tau (rounded  *)
(* away from zero, so that a residue never vanishes by rounding).          *)
(* Ordinary arithmetic is exact on the leading term; what the model keeps  *)
(* of floating point is that the trigonometric functions do not return     *)
(* zero at the images of 90, 180, 270 ... degrees, which is what the       *)
(* code's comparisons (cos_2_angle == 0) depend on.                        *)
(***************************************************************************)
EXTENDS Integers, Sequences, FiniteSets, TLC

(***************************************************************************)
(* Exact rationals n/d, d > 0, in lowest terms.                            *)
(***************************************************************************)
IAbs(i) == IF i < 0 THEN -i ELSE i

ISign(i) == IF i < 0 THEN -1 ELSE IF i > 0 THEN 1 ELSE 0

RECURSIVE IGcd(_, _)
IGcd(m, n) == IF n = 0 THEN m ELSE IGcd(n, m % n)

Rat(n, d) ==
    LET g == IGcd(IAbs(n), IAbs(d))
    IN  [n |-> ISign(d) * (n \div g), d |-> IAbs(d) \div g]

RInt(i) == [n |-> i, d |-> 1]

R0 == RInt(0)

RNeg(x) == [n |-> -x.n, d |-> x.d]

RAdd(x, y) ==
    LET g == IGcd(x.d, y.d)
    IN  Rat(x.n * (y.d \div g) + y.n * (x.d \div g), (x.d \div g) * y.d)

RMul(x, y) ==
    LET g1 == IGcd(IAbs(x.n), y.d)
        g2 == IGcd(IAbs(y.n), x.d)
    IN  IF x.n = 0 \/ y.n = 0 THEN R0
        ELSE [n |-> (x.n \div g1) * (y.n \div g2),
              d |-> (x.d \div g2) * (y.d \div g1)]

RInv(x) == [n |-> ISign(x.n) * x.d, d |-> IAbs(x.n)]

RDiv(x, y) == RMul(x, RInv(y))

RSign(x) == ISign(x.n)

\* x to a whole number, away from zero
RUlp(x) == RInt(ISign(x.n) * ((IAbs(x.n) + x.d - 1) \div x.d))

(***************************************************************************)
(* Floats: tau^e * (a + b*tau); zero is e = 0, a = b = 0; otherwise a # 0. *)
(***************************************************************************)
FZero == [e |-> 0, a |-> R0, b |-> R0]

FNorm(e, a, b) ==
    IF a.n # 0 THEN [e |-> e, a |-> a, b |-> RUlp(b)]
    ELSE IF b.n # 0 THEN [e |-> e + 1, a |-> b, b |-> R0]
    ELSE FZero

FInt(i) == FNorm(0, RInt(i), R0)

FRat(n, d) == FNorm(0, Rat(n, d), R0)

\* k * tau: the value math.cos / math.sin return where the real function is 0
FTau(k) == FNorm(1, RInt(k), R0)

FIsZero(x) == x.a.n = 0

FNeg(x) == [e |-> x.e, a |-> RNeg(x.a), b |-> RNeg(x.b)]

FAdd(x, y) ==
    IF FIsZero(x) THEN y
    ELSE IF FIsZero(y) THEN x
    ELSE IF x.e = y.e THEN FNorm(x.e, RAdd(x.a, y.a), RAdd(x.b, y.b))
    ELSE IF x.e = y.e + 1 THEN [e |-> y.e, a |-> y.a, b |-> RUlp(RAdd(y.b, x.a))]
    ELSE IF y.e = x.e + 1 THEN [e |-> x.e, a |-> x.a, b |-> RUlp(RAdd(x.b, y.a))]
    ELSE IF x.e < y.e THEN x
    ELSE y

FSub(x, y) == FAdd(x, FNeg(y))

FMul(x, y) ==
    IF FIsZero(x) \/ FIsZero(y) THEN FZero
    ELSE [e |-> x.e + y.e, a |-> RMul(x.a, y.a),
          b |-> RUlp(RAdd(RMul(x.a, y.b), RMul(x.b, y.a)))]

\* x / y for y # 0
FDiv(x, y) ==
    IF FIsZero(x) THEN FZero
    ELSE [e |-> x.e - y.e, a |-> RDiv(x.a, y.a),
          b |-> RUlp(RDiv(RAdd(RMul(x.b, y.a), RNeg(RMul(x.a, y.b))), RMul(y.a, y.a)))]

FSign(x) == RSign(x.a)

FLess(x, y) == FSign(FSub(x, y)) < 0

FLeq(x, y) == FSign(FSub(x, y)) <= 0

\* abs()
FAbs(x) == IF FSign(x) < 0 THEN FNeg(x) ELSE x

\* a faulty min that returns the larger argument; the fit inside the target
\* box depends on min taking the smaller one
FMinTakesLarger(x, y) == IF FLess(x, y) THEN y ELSE x

\* min(x, y): Python returns the first argument unless the second is smaller
FMin(x, y) == IF FLess(y, x) THEN y ELSE x

\* max(x, y): Python returns the first argument unless the second is larger
FMax(x, y) == IF FLess(x, y) THEN y ELSE x

\* the part of a float that survives a comparison within a tolerance:
\* the tau^0 coefficient (a value of order 1/tau has none)
FStd(x) == IF x.e = 0 THEN x.a ELSE R0

FIsHuge(x) == x.e < 0

\* equal up to rounding residue
FNear(x, y) == LET d == FSub(x, y) IN FIsZero(d) \/ d.e > 0

\* x <= y up to rounding residue
FLeqNear(x, y) == FNear(x, y) \/ FLess(x, y)

(***************************************************************************)
(* QSizePolicy.Policy flag values (Qt: GrowFlag 1, ExpandFlag 2,           *)
(* ShrinkFlag 4, IgnoreFlag 8).                                            *)
(***************************************************************************)
Fixed == 0

Minimum == 1

MinimumExpanding == 3

Maximum == 4

Preferred == 5

Expanding == 7

Ignored == 13

Policies == {Fixed, Minimum, MinimumExpanding, Maximum, Preferred, Expanding, Ignored}

\* the operator | on two non-negative ints
RECURSIVE BitOr(_, _)
BitOr(x, y) ==
    IF x = 0 THEN y
    ELSE IF y = 0 THEN x
    ELSE 2 * BitOr(x \div 2, y \div 2) + (IF x % 2 = 1 \/ y % 2 = 1 THEN 1 ELSE 0)

policy_order == <<Fixed, Minimum, MinimumExpanding, Maximum, Preferred, Expanding, Ignored>>

\* a faulty loop that tests combined_policy < policy in place of <=
RECURSIVE FirstStrictlySuperior(_, _)
FirstStrictlySuperior(combined_policy, i) ==
    IF i > Len(policy_order) THEN Ignored
    ELSE IF combined_policy < policy_order[i] THEN policy_order[i]
    ELSE FirstStrictlySuperior(combined_policy, i + 1)

\* the for loop of combine_size_policies from index i on, with its fallback
RECURSIVE FirstSuperior(_, _)
FirstSuperior(combined_policy, i) ==
    IF i > Len(policy_order) THEN Ignored
    ELSE IF combined_policy <= policy_order[i] THEN policy_order[i]
    ELSE FirstSuperior(combined_policy, i + 1)

\* a faulty combination that looks at horizontal_policy alone
combine_horizontal_only(horizontal_policy, vertical_policy) ==
    FirstSuperior(horizontal_policy, 1)

combine_size_policies(horizontal_policy, vertical_policy) ==
    LET combined_policy == BitOr(horizontal_policy, vertical_policy)
    IN  FirstSuperior(combined_policy, 1)

(***************************************************************************)
(* Angles are whole degrees.  A radian measure is represented by the       *)
(* degrees it converts from, so 2 * angle_rad is twice the degrees.        *)
(***************************************************************************)
\* a faulty normalisation that drops the sign (what a remainder truncated
\* toward zero followed by abs would give)
normalize_angle_unsigned(angle) == IAbs(angle) % 360

normalize_angle(angle) == angle % 360

radians_angle(angle, normalize) == IF normalize THEN normalize_angle(angle) ELSE angle

\* math.cos on the first quadrant, to two decimals
CosQ1(d) ==
    FRat(CASE d = 16 -> 96
           [] d = 30 -> 87
           [] d = 37 -> 80
           [] d = 45 -> 71
           [] d = 53 -> 60
           [] d = 60 -> 50
           [] d = 74 -> 28, 100)

\* 0.71 + j*tau: sine and cosine of 45, 135, 225 and 315 degrees are not the
\* same float (at 45: 0.7071067811865476 and 0.7071067811865475, one ulp of
\* about 2*tau apart)
F45(j) == FNorm(0, Rat(71, 100), RInt(j))

\* math.cos(r), r >= 0.  At the float nearest k*pi/2, k odd, the result is
\* the residue k*tau with alternating sign (6.1e-17, -1.8e-16, 3.1e-16 ...)
math_cos(r) ==
    LET k == r \div 90
        m == r % 90
    IN  IF m = 0
        THEN CASE k % 4 = 0 -> FInt(1)
               [] k % 4 = 1 -> FTau(k)
               [] k % 4 = 2 -> FInt(-1)
               [] k % 4 = 3 -> FTau(-k)
        ELSE IF m = 45 /\ k < 4
        THEN CASE k = 0 -> F45(0)
               [] k = 1 -> FNeg(F45(-2))
               [] k = 2 -> FNeg(F45(2))
               [] k = 3 -> F45(-4)
        ELSE CASE k % 4 = 0 -> CosQ1(m)
               [] k % 4 = 1 -> FNeg(CosQ1(90 - m))
               [] k % 4 = 2 -> FNeg(CosQ1(m))
               [] k % 4 = 3 -> CosQ1(90 - m)

\* math.sin(r), r >= 0.  sin(0.0) is 0.0; at the float nearest k*pi/2, k even
\* and positive, the result is a residue (1.2e-16 at 180 degrees)
math_sin(r) ==
    LET k == r \div 90
        m == r % 90
    IN  IF m = 0
        THEN CASE k % 4 = 0 -> FTau(-k)
               [] k % 4 = 1 -> FInt(1)
               [] k % 4 = 2 -> FTau(k)
               [] k % 4 = 3 -> FInt(-1)
        ELSE IF m = 45 /\ k < 4
        THEN CASE k = 0 -> F45(-2)
               [] k = 1 -> F45(0)
               [] k = 2 -> FNeg(F45(-2))
               [] k = 3 -> FNeg(F45(2))
        ELSE CASE k % 4 = 0 -> CosQ1(90 - m)
               [] k % 4 = 1 -> CosQ1(m)
               [] k % 4 = 2 -> FNeg(CosQ1(90 - m))
               [] k % 4 = 3 -> FNeg(CosQ1(m))

\* math.sqrt(2), to two decimals
math_sqrt2 == FRat(141, 100)

abs_sin(angle_rad) == FAbs(math_sin(angle_rad))

abs_cos(angle_rad) == FAbs(math_cos(angle_rad))

abs_sin_d(angle) == abs_sin(radians_angle(angle, TRUE))

abs_cos_d(angle) == abs_cos(radians_angle(angle, TRUE))

(***************************************************************************)
(* QuadrantOrAxis                                                          *)
(***************************************************************************)
QuadrantOrAxis ==
    {"POSITIVE_X_AXIS", "POSITIVE_Y_AXIS", "NEGATIVE_X_AXIS", "NEGATIVE_Y_AXIS",
     "QUADRANT_1", "QUADRANT_2", "QUADRANT_3", "QUADRANT_4"}

get_quadrant_or_axis(angle) ==
    LET normalized_angle == normalize_angle(angle)
    IN  IF normalized_angle = 0 THEN "POSITIVE_X_AXIS"
        ELSE IF normalized_angle = 90 THEN "POSITIVE_Y_AXIS"
        ELSE IF normalized_angle = 180 THEN "NEGATIVE_X_AXIS"
        ELSE IF normalized_angle = 270 THEN "NEGATIVE_Y_AXIS"
        ELSE IF normalized_angle < 90 THEN "QUADRANT_1"
        ELSE IF normalized_angle < 180 THEN "QUADRANT_2"
        ELSE IF normalized_angle < 270 THEN "QUADRANT_3"
        ELSE "QUADRANT_4"

(***************************************************************************)
(* Results of a call: the returned pair, or the exception raised.          *)
(***************************************************************************)
Returned(width, height) == [exc |-> "none", width |-> width, height |-> height]

ZeroDivisionError == [exc |-> "ZeroDivisionError", width |-> FZero, height |-> FZero]

\* an optional argument: None, or a number
None == [some |-> FALSE, v |-> FZero]

Some(x) == [some |-> TRUE, v |-> x]

\* lines 120-123: the bounding box from cos_angle and sin_angle
rotated_box(width, height, cos_angle, sin_angle) ==
    Returned(FAdd(FMul(width, cos_angle), FMul(height, sin_angle)),
             FAdd(FMul(height, cos_angle), FMul(width, sin_angle)))

get_rotated_dimensions(width, height, angle) ==
    rotated_box(width, height, abs_cos(radians_angle(angle, TRUE)),
                abs_sin(radians_angle(angle, TRUE)))

\* aspect_ratio of get_original_dimensions: None, math.inf or a number
AspectNone == [kind |-> "none", v |-> FZero]

AspectInf == [kind |-> "inf", v |-> FZero]

AspectNum(x) == [kind |-> "num", v |-> x]

\* a faulty aspect ratio, current_height / current_width
aspect_ratio_inverted(current_width, current_height) ==
    IF current_width.some /\ current_height.some /\ ~FIsZero(current_height.v)
    THEN AspectNum(FDiv(current_height.v, current_width.v))
    ELSE IF current_width.some THEN AspectInf
    ELSE IF current_height.some THEN AspectNum(FZero)
    ELSE AspectNone

aspect_ratio_of(current_width, current_height) ==
    IF current_width.some /\ current_height.some /\ ~FIsZero(current_height.v)
    THEN AspectNum(FDiv(current_width.v, current_height.v))
    ELSE IF current_width.some THEN AspectInf
    ELSE IF current_height.some THEN AspectNum(FZero)
    ELSE AspectNone

\* the branch for angle % 90 == 0; (first, second) is (rotated_width,
\* rotated_height) when angle % 180 == 0 and the swapped pair otherwise
original_right_angle(first, second, aspect_ratio, current_width, current_height) ==
    IF aspect_ratio.kind # "none"
    THEN IF aspect_ratio.kind = "inf"
         THEN Returned(current_width.v, second)
         ELSE IF FIsZero(aspect_ratio.v)
         THEN Returned(first, current_height.v)
         ELSE LET width == FMin(first, FMul(second, aspect_ratio.v))
              IN  Returned(width, FDiv(width, aspect_ratio.v))
    ELSE Returned(first, second)

\* the branch for cos_2_angle == 0
original_45_family(rotated_width, rotated_height, aspect_ratio, current_width, current_height) ==
    LET sqrt2_min_dim == FMul(math_sqrt2, FMin(rotated_width, rotated_height))
    IN  IF aspect_ratio.kind # "none"
        THEN IF aspect_ratio.kind = "inf"
             THEN Returned(current_width.v, FSub(sqrt2_min_dim, current_width.v))
             ELSE IF FIsZero(aspect_ratio.v)
             THEN Returned(FSub(sqrt2_min_dim, current_height.v), current_height.v)
             ELSE LET den == FAdd(aspect_ratio.v, FInt(1))
                      height == FDiv(sqrt2_min_dim, den)
                  IN  IF FIsZero(den) THEN ZeroDivisionError
                      ELSE Returned(FMul(height, aspect_ratio.v), height)
        ELSE Returned(FDiv(sqrt2_min_dim, FInt(2)), FDiv(sqrt2_min_dim, FInt(2)))

\* the general branch
original_general(rotated_width, rotated_height, aspect_ratio, current_width, current_height, cos_angle, sin_angle, cos_2_angle) ==
    IF aspect_ratio.kind # "none"
    THEN IF aspect_ratio.kind = "inf"
         THEN LET width == current_width.v
                  height == FMin(FDiv(FSub(rotated_width, FMul(width, cos_angle)), sin_angle),
                                 FDiv(FSub(rotated_height, FMul(width, sin_angle)), cos_angle))
              IN  IF FIsZero(sin_angle) \/ FIsZero(cos_angle) THEN ZeroDivisionError
                  ELSE Returned(width, height)
         ELSE IF FIsZero(aspect_ratio.v)
         THEN LET height == current_height.v
                  width == FMin(FDiv(FSub(rotated_width, FMul(height, sin_angle)), cos_angle),
                                FDiv(FSub(rotated_height, FMul(height, cos_angle)), sin_angle))
              IN  IF FIsZero(sin_angle) \/ FIsZero(cos_angle) THEN ZeroDivisionError
                  ELSE Returned(width, height)
         ELSE LET den_w == FAdd(FMul(aspect_ratio.v, cos_angle), sin_angle)
                  den_h == FAdd(FMul(aspect_ratio.v, sin_angle), cos_angle)
                  height == FMin(FDiv(rotated_width, den_w), FDiv(rotated_height, den_h))
              IN  IF FIsZero(den_w) \/ FIsZero(den_h) THEN ZeroDivisionError
                  ELSE Returned(FMul(height, aspect_ratio.v), height)
    ELSE LET width == FAbs(FDiv(FSub(FMul(rotated_width, cos_angle),
                                     FMul(rotated_height, sin_angle)), cos_2_angle))
             height == FDiv(FAbs(FSub(rotated_height, FMul(width, sin_angle))), cos_angle)
         IN  IF FIsZero(cos_2_angle) \/ FIsZero(cos_angle) THEN ZeroDivisionError
             ELSE Returned(width, height)

get_original_dimensions(rotated_width, rotated_height, angle, current_width, current_height) ==
    LET angle_rad == radians_angle(angle, TRUE)
        cos_angle == abs_cos(angle_rad)
        cos_2_angle == math_cos(2 * angle_rad)
        sin_angle == abs_sin(angle_rad)
        aspect_ratio == aspect_ratio_of(current_width, current_height)
    IN  IF angle % 90 = 0
        THEN IF angle % 180 = 0
             THEN original_right_angle(rotated_width, rotated_height, aspect_ratio,
                                       current_width, current_height)
             ELSE original_right_angle(rotated_height, rotated_width, aspect_ratio,
                                       current_width, current_height)
        ELSE IF FIsZero(cos_2_angle)
        THEN original_45_family(rotated_width, rotated_height, aspect_ratio,
                                current_width, current_height)
        ELSE original_general(rotated_width, rotated_height, aspect_ratio,
                              current_width, current_height, cos_angle, sin_angle, cos_2_angle)

(***************************************************************************)
(* round(x) of Python on a float: to the nearest int, a tie to the even    *)
(* one; a rounding residue decides which side of a tie the float is on.    *)
(***************************************************************************)
round(x) ==
    IF FIsZero(x) \/ x.e > 0 THEN 0
    ELSE LET q == x.a.n \div x.a.d
             twice == 2 * (x.a.n - q * x.a.d)
         IN  IF twice < x.a.d THEN q
             ELSE IF twice > x.a.d THEN q + 1
             ELSE IF x.b.n > 0 THEN q + 1
             ELSE IF x.b.n < 0 THEN q
             ELSE IF q % 2 = 0 THEN q ELSE q + 1

IMax(i, j) == IF i < j THEN j ELSE i

IMin(i, j) == IF j < i THEN j ELSE i

(***************************************************************************)
(* What the code uses of Qt's QWidget, on the record of a widget: size     *)
(* policy, minimum and maximum size, geometry.  A change of size leaves a  *)
(* resize event to deliver (pending_resize).                               *)
(***************************************************************************)
QWIDGETSIZE_MAX == 16777215

setSizePolicy(w, horizontal, vertical) ==
    [w EXCEPT !.horizontal_policy = horizontal, !.vertical_policy = vertical]

\* QWidget.setGeometry: the size is kept within the minimum and maximum size
setGeometry(w, x, y, width, height) ==
    LET bw == IMax(IMin(width, w.maximumWidth), w.minimumWidth)
        bh == IMax(IMin(height, w.maximumHeight), w.minimumHeight)
    IN  [w EXCEPT !.left = x, !.top = y, !.width = bw, !.height = bh,
                  !.pending_resize = @ \/ bw # w.width \/ bh # w.height]

\* QWidget.setMinimumSize: within 0..QWIDGETSIZE_MAX; a smaller widget grows
setMinimumSize(w, minw, minh) ==
    LET mw == IMax(0, IMin(minw, QWIDGETSIZE_MAX))
        mh == IMax(0, IMin(minh, QWIDGETSIZE_MAX))
        w1 == [w EXCEPT !.minimumWidth = mw, !.minimumHeight = mh]
    IN  IF mw > w.width \/ mh > w.height
        THEN setGeometry(w1, w.left, w.top, IMax(mw, w.width), IMax(mh, w.height))
        ELSE w1

\* QWidget.setMaximumSize: within 0..QWIDGETSIZE_MAX; a larger widget shrinks
setMaximumSize(w, maxw, maxh) ==
    LET mw == IMax(0, IMin(maxw, QWIDGETSIZE_MAX))
        mh == IMax(0, IMin(maxh, QWIDGETSIZE_MAX))
        w1 == [w EXCEPT !.maximumWidth = mw, !.maximumHeight = mh]
    IN  IF mw < w.width \/ mh < w.height
        THEN setGeometry(w1, w.left, w.top, IMin(mw, w.width), IMin(mh, w.height))
        ELSE w1

setMinimumWidth(w, minw) == setMinimumSize(w, minw, w.minimumHeight)

setMinimumHeight(w, minh) == setMinimumSize(w, w.minimumWidth, minh)

setMaximumWidth(w, maxw) == setMaximumSize(w, maxw, w.maximumHeight)

setMaximumHeight(w, maxh) == setMaximumSize(w, w.maximumWidth, maxh)

setFixedWidth(w, width) ==
    LET w1 == setMinimumSize(w, width, w.minimumHeight)
    IN  setMaximumSize(w1, width, w1.maximumHeight)

setFixedHeight(w, height) ==
    LET w1 == setMinimumSize(w, w.minimumWidth, height)
    IN  setMaximumSize(w1, w1.maximumWidth, height)

get_policies(w) == <<w.horizontal_policy, w.vertical_policy>>

\* (width, height) as get_dimensions returns them, each None or a number
get_dimensions(widget, consider_none) ==
    LET policies == get_policies(widget)
        horizontal_policy == policies[1]
        vertical_policy == policies[2]
        width == IF horizontal_policy = Preferred THEN Some(FInt(widget.hint_width))
                 ELSE IF horizontal_policy = Fixed \/ ~consider_none
                 THEN Some(FInt(widget.width))
                 ELSE None
        height == IF vertical_policy = Preferred THEN Some(FInt(widget.hint_height))
                  ELSE IF vertical_policy = Fixed \/ ~consider_none
                  THEN Some(FInt(widget.height))
                  ELSE None
    IN  <<width, height>>

(***************************************************************************)
(* RotatedWidget.  self is the record of the view: its QWidget part and    *)
(* angle, preserve_aspect_ratio; widget is the wrapped widget.             *)
(***************************************************************************)
\* lines 87-99: the view's own policies widen its minimum or narrow its maximum
clamp_to_policy(self, rotated_width, rotated_height) ==
    LET policies == get_policies(self)
        horizontal_policy == policies[1]
        vertical_policy == policies[2]
        s1 == IF horizontal_policy \in {Minimum, MinimumExpanding}
              THEN IF rotated_width > self.minimumWidth
                   THEN setMinimumWidth(self, rotated_width) ELSE self
              ELSE IF horizontal_policy = Maximum
              THEN IF rotated_width < self.maximumWidth
                   THEN setMaximumWidth(self, rotated_width) ELSE self
              ELSE self
    IN  IF vertical_policy \in {Minimum, MinimumExpanding}
        THEN IF rotated_height > s1.minimumHeight
             THEN setMinimumHeight(s1, rotated_height) ELSE s1
        ELSE IF vertical_policy = Maximum
        THEN IF rotated_height < s1.maximumHeight
             THEN setMaximumHeight(s1, rotated_height) ELSE s1
        ELSE s1

\* lines 64-70, the branch angle % 180 == 0: the widget's policies and limits
\* as they are, a Fixed axis pinned to the rotated size
straight_policy(self, widget, rotated_width, rotated_height) ==
    LET s1 == setSizePolicy(self, widget.horizontal_policy, widget.vertical_policy)
        s2 == setMinimumSize(s1, widget.minimumWidth, widget.minimumHeight)
        s3 == setMaximumSize(s2, widget.maximumWidth, widget.maximumHeight)
        s4 == IF widget.vertical_policy = Fixed THEN setFixedHeight(s3, rotated_height) ELSE s3
    IN  IF widget.horizontal_policy = Fixed THEN setFixedWidth(s4, rotated_width) ELSE s4

\* a faulty branch for angle % 90 == 0 that swaps the limits and leaves the
\* policies as the widget has them
swapped_policy_kept(self, widget, rotated_width, rotated_height) ==
    LET s1 == setSizePolicy(self, widget.horizontal_policy, widget.vertical_policy)
        s2 == setMinimumSize(s1, widget.minimumHeight, widget.minimumWidth)
        s3 == setMaximumSize(s2, widget.maximumHeight, widget.maximumWidth)
        s4 == IF widget.vertical_policy = Fixed THEN setFixedWidth(s3, rotated_width) ELSE s3
    IN  IF widget.horizontal_policy = Fixed THEN setFixedHeight(s4, rotated_height) ELSE s4

\* lines 72-78, the branch angle % 90 == 0: policies and limits swapped
swapped_policy(self, widget, rotated_width, rotated_height) ==
    LET s1 == setSizePolicy(self, widget.vertical_policy, widget.horizontal_policy)
        s2 == setMinimumSize(s1, widget.minimumHeight, widget.minimumWidth)
        s3 == setMaximumSize(s2, widget.maximumHeight, widget.maximumWidth)
        s4 == IF widget.vertical_policy = Fixed THEN setFixedWidth(s3, rotated_width) ELSE s3
    IN  IF widget.horizontal_policy = Fixed THEN setFixedHeight(s4, rotated_height) ELSE s4

\* lines 80-85, any other angle: the combined policy on both axes, and the
\* rotated minimum (mins) and maximum (maxs) size as limits
oblique_policy(self, combined_size_policy, mins, maxs) ==
    setMaximumSize(setMinimumSize(setSizePolicy(self, combined_size_policy,
                                                combined_size_policy),
                                  round(mins.width), round(mins.height)),
                   round(maxs.width), round(maxs.height))

\* lines 62-85: the branch on the angle
branch_policy(self, widget, rotated_width, rotated_height) ==
    IF self.angle % 180 = 0
    THEN straight_policy(self, widget, rotated_width, rotated_height)
    ELSE IF self.angle % 90 = 0
    THEN swapped_policy(self, widget, rotated_width, rotated_height)
    ELSE oblique_policy(self,
             combine_size_policies(get_policies(widget)[1], get_policies(widget)[2]),
             get_rotated_dimensions(FInt(widget.minimumWidth), FInt(widget.minimumHeight),
                                    self.angle),
             get_rotated_dimensions(FInt(widget.maximumWidth), FInt(widget.maximumHeight),
                                    self.angle))

\* lines 61-99: update_size_policy from the rotated size
size_policy_for(self, widget, rotated_width, rotated_height) ==
    clamp_to_policy(setGeometry(branch_policy(self, widget, rotated_width, rotated_height),
                                0, 0, rotated_width, rotated_height),
                    rotated_width, rotated_height)

\* lines 61-99: rotated is what get_rotated_dimensions returned
size_policy_from(self, widget, rotated) ==
    size_policy_for(self, widget, round(rotated.width), round(rotated.height))

update_size_policy(self, widget) ==
    size_policy_from(self, widget,
        get_rotated_dimensions(FInt(widget.width), FInt(widget.height), self.angle))

\* QSize(width, height) of RotatedWidget.sizeHint
sizeHint(self, widget) ==
    LET rotated == get_rotated_dimensions(FInt(widget.hint_width), FInt(widget.hint_height),
                                          self.angle)
    IN  <<round(rotated.width), round(rotated.height)>>

\* lines 117-125: the size get_original_dimensions gave (original), held to
\* the wrapped widget's sizeHint() as its policies ask
hinted_dimensions(widget, original) ==
    LET policies == get_policies(widget)
        horizontal_policy == policies[1]
        vertical_policy == policies[2]
        width == IF horizontal_policy \in {Minimum, MinimumExpanding}
                 THEN FMax(FInt(widget.hint_width), original.width)
                 ELSE IF horizontal_policy = Maximum
                 THEN FMin(FInt(widget.hint_width), original.width)
                 ELSE original.width
        height == IF vertical_policy \in {Minimum, MinimumExpanding}
                  THEN FMax(FInt(widget.hint_height), original.height)
                  ELSE IF vertical_policy = Maximum
                  THEN FMin(FInt(widget.hint_height), original.height)
                  ELSE original.height
    IN  IF original.exc # "none" THEN original ELSE Returned(width, height)

get_widget_dimensions(self, widget) ==
    LET policies == get_policies(widget)
        horizontal_policy == policies[1]
        vertical_policy == policies[2]
        current == get_dimensions(widget, ~self.preserve_aspect_ratio)
        constant_width == horizontal_policy \in {Fixed, Preferred}
        constant_height == vertical_policy \in {Fixed, Preferred}
    IN  IF (constant_height /\ constant_width)
           \/ ((constant_height \/ constant_width) /\ self.preserve_aspect_ratio)
        THEN Returned(current[1].v, current[2].v)
        ELSE hinted_dimensions(widget,
                 get_original_dimensions(FInt(self.width), FInt(self.height), self.angle,
                                         current[1], current[2]))

\* QRectF.setLeft / setTop of resizeEvent: whether the edge is moved, by which
\* expression of the code, and by how much (the edge moves by -by)
NoShift == [moved |-> FALSE, rule |-> "none", by |-> FZero]

Shift(rule, by) == [moved |-> TRUE, rule |-> rule, by |-> by]

\* lines 148-161, the calls of scene_rect.setLeft
anchor_left(quadrant_or_axis, angle, width, height, rotated_width, rotated_height, scene_rect, proxy_rect) ==
    CASE quadrant_or_axis = "QUADRANT_1" ->
           Shift("(height - proxy_rect.height()) * abs_sin_d(angle)",
                 FMul(FSub(height, proxy_rect.height), abs_sin_d(angle)))
      [] quadrant_or_axis = "QUADRANT_2" ->
           Shift("rotated_width - scene_rect.width()", FSub(rotated_width, scene_rect.width))
      [] quadrant_or_axis = "QUADRANT_3" ->
           Shift("(width - proxy_rect.width()) * abs_cos_d(angle)",
                 FMul(FSub(width, proxy_rect.width), abs_cos_d(angle)))
      [] quadrant_or_axis = "NEGATIVE_X_AXIS" ->
           Shift("rotated_width - scene_rect.width()", FSub(rotated_width, scene_rect.width))
      [] OTHER -> NoShift

\* lines 148-161, the calls of scene_rect.setTop
anchor_top(quadrant_or_axis, angle, width, height, rotated_width, rotated_height, scene_rect, proxy_rect) ==
    CASE quadrant_or_axis = "QUADRANT_2" ->
           Shift("(height - proxy_rect.height()) * abs_cos_d(angle)",
                 FMul(FSub(height, proxy_rect.height), abs_cos_d(angle)))
      [] quadrant_or_axis = "QUADRANT_3" ->
           Shift("rotated_height - scene_rect.height()", FSub(rotated_height, scene_rect.height))
      [] quadrant_or_axis = "QUADRANT_4" ->
           Shift("(width - proxy_rect.width()) * abs_sin_d(angle)",
                 FMul(FSub(width, proxy_rect.width), abs_sin_d(angle)))
      [] quadrant_or_axis = "NEGATIVE_Y_AXIS" ->
           Shift("rotated_height - scene_rect.height()", FSub(rotated_height, scene_rect.height))
      [] OTHER -> NoShift

\* qRound of Qt on a size: to the nearest int, a tie away from zero
qRound(x) ==
    IF FIsZero(x) \/ x.e > 0 THEN 0
    ELSE LET q == x.a.n \div x.a.d
             twice == 2 * (x.a.n - q * x.a.d)
         IN  IF twice < x.a.d THEN q
             ELSE IF twice > x.a.d THEN q + 1
             ELSE IF x.a.n > 0 \/ x.b.n > 0 THEN q + 1 ELSE q

\* no run of the handler yet
NoEvent ==
    [handled |-> FALSE, exc |-> "none", quadrant_or_axis |-> "POSITIVE_X_AXIS",
     left |-> NoShift, top |-> NoShift]

\* the handler left by the exception raised, nothing changed
raise(self, widget, scene, proxy, exc) ==
    [self |-> [self EXCEPT !.pending_resize = FALSE], widget |-> widget,
     scene |-> scene, proxy |-> proxy,
     event |-> [NoEvent EXCEPT !.handled = TRUE, !.exc = exc]]

\* lines 142-170: resizeEvent once width, height and the rotated size are known.
\* setGeometry cannot take a rounded size of the order of 1/tau (OverflowError
\* on the conversion to a C int).
resize_to(self, widget, scene, proxy, width, height, rotated_width, rotated_height) ==
    LET delivered == [self EXCEPT !.pending_resize = FALSE]
        resized ==
            IF IAbs(self.width - round(rotated_width)) >= 1
               \/ IAbs(self.height - round(rotated_height)) >= 0
            THEN setGeometry(delivered, self.left, self.top,
                             round(rotated_width), round(rotated_height))
            ELSE delivered
        quadrant_or_axis == get_quadrant_or_axis(self.angle)
        left == anchor_left(quadrant_or_axis, self.angle, width, height,
                            rotated_width, rotated_height, scene, proxy)
        top == anchor_top(quadrant_or_axis, self.angle, width, height,
                          rotated_width, rotated_height, scene, proxy)
        scene_rect == [left |-> FSub(scene.left, left.by), top |-> FSub(scene.top, top.by),
                       width |-> rotated_width, height |-> rotated_height]
        adjusted == [proxy EXCEPT !.width = FAdd(@, FSub(width, proxy.width)),
                                  !.height = FAdd(@, FSub(height, proxy.height))]
        \* QGraphicsProxyWidget.setGeometry: no negative size, and the wrapped
        \* widget takes the rounded size within its own minimum and maximum
        proxy_rect == [adjusted EXCEPT !.width = FMax(FZero, @), !.height = FMax(FZero, @)]
        embedded == setGeometry(widget, widget.left, widget.top,
                                qRound(proxy_rect.width), qRound(proxy_rect.height))
    IN  IF FIsHuge(rotated_width) \/ FIsHuge(rotated_height)
        THEN raise(self, widget, scene, proxy, "OverflowError")
        ELSE [self |-> resized, widget |-> [embedded EXCEPT !.pending_resize = FALSE],
              scene |-> scene_rect, proxy |-> proxy_rect,
              event |-> [handled |-> TRUE, exc |-> "none",
                         quadrant_or_axis |-> quadrant_or_axis, left |-> left, top |-> top]]

\* lines 139-170: resizeEvent once get_widget_dimensions has returned
resize_for(self, widget, scene, proxy, width, height, rotated) ==
    resize_to(self, widget, scene, proxy, width, height, rotated.width, rotated.height)

\* lines 138-170: an exception of get_widget_dimensions leaves the handler
\* before anything is changed
resize_with(self, widget, scene, proxy, dims) ==
    IF dims.exc # "none"
    THEN raise(self, widget, scene, proxy, dims.exc)
    ELSE resize_for(self, widget, scene, proxy, dims.width, dims.height,
                    get_rotated_dimensions(dims.width, dims.height, self.angle))

\* resizeEvent: the view, the wrapped widget, the scene's rectangle and the
\* proxy's geometry after the handler, and what the handler did (event)
resizeEvent(self, widget, scene, proxy) ==
    resize_with(self, widget, scene, proxy, get_widget_dimensions(self, widget))

\* A QWidget as Qt makes it: 640 x 480 at (0, 0), no limits on its size, and
\* a resize event to come when it is first shown
QWidget(horizontal_policy, vertical_policy) ==
    [horizontal_policy |-> horizontal_policy, vertical_policy |-> vertical_policy,
     minimumWidth |-> 0, minimumHeight |-> 0,
     maximumWidth |-> QWIDGETSIZE_MAX, maximumHeight |-> QWIDGETSIZE_MAX,
     left |-> 0, top |-> 0, width |-> 640, height |-> 480,
     pending_resize |-> TRUE]

\* lines 33-36: the QGraphicsView a RotatedWidget is before it is sized, a
\* QWidget with the arguments of __init__ stored
QGraphicsView(angle, preserve_aspect_ratio) ==
    LET base == QWidget(Expanding, Expanding)
    IN  [horizontal_policy |-> base.horizontal_policy,
         vertical_policy |-> base.vertical_policy,
         minimumWidth |-> base.minimumWidth, minimumHeight |-> base.minimumHeight,
         maximumWidth |-> base.maximumWidth, maximumHeight |-> base.maximumHeight,
         left |-> base.left, top |-> base.top,
         width |-> base.width, height |-> base.height,
         pending_resize |-> base.pending_resize,
         angle |-> angle, preserve_aspect_ratio |-> preserve_aspect_ratio]

\* line 46: the scene's rectangle is the bounding box (box) of the proxy
\* rotated about its centre
sceneRectOf(widget, box) ==
    [left |-> FDiv(FSub(FInt(widget.width), box.width), FInt(2)),
     top |-> FDiv(FSub(FInt(widget.height), box.height), FInt(2)),
     width |-> box.width, height |-> box.height]

\* RotatedWidget.__init__: the view, the scene's rectangle and the proxy's
\* geometry
RotatedWidget(widget, angle, preserve_aspect_ratio) ==
    [self |-> update_size_policy(QGraphicsView(angle, preserve_aspect_ratio), widget),
     scene |-> sceneRectOf(widget, get_rotated_dimensions(FInt(widget.width),
                                                          FInt(widget.height), angle)),
     proxy |-> [left |-> FZero, top |-> FZero,
                width |-> FInt(widget.width), height |-> FInt(widget.height)]]

(***************************************************************************)
(* Bounds and input sets                                                   *)
(***************************************************************************)
MaxDim == 2

\* widths and heights a caller passes: 0, 10, 20 ...
Dims == {10 * k : k \in 0..MaxDim}

\* a negative size, as a caller's mistake
BadDims == {-10}

Angles == {-90, -45, 0, 30, 37, 45, 90, 135, 180, 225, 270, 315, 360, 450}

OptDims(S) == {None} \cup {Some(FInt(d)) : d \in S}

\* the client's and the layout's operations, the construction included
MaxSteps == 2

\* one angle for each of the 8 classifications; -45 needs wrapping
ViewAngles == {-45, 0, 37, 90, 135, 180, 225, 270}

\* policies of the wrapped widget: one for each case the code tells apart
ViewPolicies == {Fixed, Minimum, Maximum, Preferred, Expanding}

\* minimum and maximum size of the wrapped widget: Qt's defaults, a fixed
\* size (setFixedSize(20, 10)), and limits around the size
WidgetLimits ==
    {[minimumWidth |-> 0, minimumHeight |-> 0,
      maximumWidth |-> QWIDGETSIZE_MAX, maximumHeight |-> QWIDGETSIZE_MAX],
     [minimumWidth |-> 20, minimumHeight |-> 10, maximumWidth |-> 20, maximumHeight |-> 10],
     [minimumWidth |-> 10, minimumHeight |-> 5, maximumWidth |-> 40, maximumHeight |-> 30]}

\* a wrapped widget of 20 x 10 whose sizeHint() is 30 x 10
WrappedWidget(horizontal_policy, vertical_policy, limits) ==
    [horizontal_policy |-> horizontal_policy, vertical_policy |-> vertical_policy,
     minimumWidth |-> limits.minimumWidth, minimumHeight |-> limits.minimumHeight,
     maximumWidth |-> limits.maximumWidth, maximumHeight |-> limits.maximumHeight,
     left |-> 0, top |-> 0, width |-> 20, height |-> 10,
     pending_resize |-> FALSE, hint_width |-> 30, hint_height |-> 10]

\* sizes a layout gives the view
LayoutSizes == {<<15, 15>>, <<40, 30>>}

(***************************************************************************)
(* State.  call is a call of a function of tools.py: its arguments, and    *)
(* once it has run (done) what it gave.  prev is the call whose result was *)
(* passed on to it, when a caller chains the two mappings.                 *)
(***************************************************************************)
VARIABLES call, prev

(***************************************************************************)
(* State of a RotatedWidget: view is the RotatedWidget, inner the widget   *)
(* it wraps, sceneRect the scene's rectangle, proxyRect the proxy's        *)
(* geometry.  event is what the last run of resizeEvent did, and earlier   *)
(* what it did for the RotatedWidget the client built before this one.     *)
(* steps counts the client's and the layout's operations.                  *)
(***************************************************************************)
VARIABLES view, inner, sceneRect, proxyRect, event, earlier, steps

toolVars == <<call, prev>>

viewVars == <<view, inner, sceneRect, proxyRect, event, earlier, steps>>

vars == <<call, prev, view, inner, sceneRect, proxyRect, event, earlier, steps>>

NoCall ==
    [fn |-> "none", done |-> FALSE, width |-> FZero, height |-> FZero, angle |-> 0,
     current_width |-> None, current_height |-> None,
     horizontal_policy |-> Fixed, vertical_policy |-> Fixed,
     dims |-> Returned(FZero, FZero), policy |-> Fixed, quadrant |-> "POSITIVE_X_AXIS"]

CallCombineSizePolicies ==
    /\ call.fn = "combine_size_policies" /\ ~call.done
    /\ call' = [call EXCEPT !.done = TRUE,
                            !.policy = combine_size_policies(call.horizontal_policy,
                                                             call.vertical_policy)]
    /\ UNCHANGED prev
    /\ UNCHANGED viewVars

CallGetQuadrantOrAxis ==
    /\ call.fn = "get_quadrant_or_axis" /\ ~call.done
    /\ call' = [call EXCEPT !.done = TRUE, !.quadrant = get_quadrant_or_axis(call.angle)]
    /\ UNCHANGED prev
    /\ UNCHANGED viewVars

CallGetRotatedDimensions ==
    /\ call.fn = "get_rotated_dimensions" /\ ~call.done
    /\ call' = [call EXCEPT !.done = TRUE,
                            !.dims = get_rotated_dimensions(call.width, call.height, call.angle)]
    /\ UNCHANGED prev
    /\ UNCHANGED viewVars

CallGetOriginalDimensions ==
    /\ call.fn = "get_original_dimensions" /\ ~call.done
    /\ call' = [call EXCEPT !.done = TRUE,
                            !.dims = get_original_dimensions(call.width, call.height, call.angle,
                                         call.current_width, call.current_height)]
    /\ UNCHANGED prev
    /\ UNCHANGED viewVars

\* a caller maps a rectangle forward and then back, passing the rectangle's
\* own width and height as current_width and current_height
CallOriginalOfRotated ==
    /\ call.fn = "get_rotated_dimensions" /\ call.done
    /\ prev.fn = "none"
    /\ call' = [NoCall EXCEPT !.fn = "get_original_dimensions", !.done = TRUE,
                              !.width = call.dims.width, !.height = call.dims.height,
                              !.angle = call.angle,
                              !.current_width = Some(call.width),
                              !.current_height = Some(call.height),
                              !.dims = get_original_dimensions(call.dims.width, call.dims.height,
                                           call.angle, Some(call.width), Some(call.height))]
    /\ prev' = call
    /\ UNCHANGED viewVars

\* a caller maps the recovered rectangle forward again (resizeEvent does)
CallRotatedOfOriginal ==
    /\ call.fn = "get_original_dimensions" /\ call.done
    /\ call.dims.exc = "none"
    /\ prev.fn = "none"
    /\ call' = [NoCall EXCEPT !.fn = "get_rotated_dimensions", !.done = TRUE,
                              !.width = call.dims.width, !.height = call.dims.height,
                              !.angle = call.angle,
                              !.dims = get_rotated_dimensions(call.dims.width, call.dims.height,
                                                              call.angle)]
    /\ prev' = call
    /\ UNCHANGED viewVars

\* the client is about to call RotatedWidget(widget, angle,
\* preserve_aspect_ratio=...): view holds the arguments
Unbuilt(widget, angle, preserve_aspect_ratio) ==
    /\ view = QGraphicsView(angle, preserve_aspect_ratio)
    /\ inner = widget
    /\ sceneRect = [left |-> FZero, top |-> FZero, width |-> FZero, height |-> FZero]
    /\ proxyRect = [left |-> FZero, top |-> FZero, width |-> FZero, height |-> FZero]
    /\ steps = 0

\* the view, the scene's rectangle and the proxy's geometry become those of
\* the RotatedWidget built
Becomes(built) ==
    /\ view' = built.self
    /\ sceneRect' = built.scene
    /\ proxyRect' = built.proxy

\* RotatedWidget.__init__ runs
Construct ==
    /\ steps = 0
    /\ Becomes(RotatedWidget(inner, view.angle, view.preserve_aspect_ratio))
    /\ steps' = 1
    /\ UNCHANGED <<inner, event, earlier>>
    /\ UNCHANGED toolVars

\* the layout gives the view a size
LayoutResize(width, height) ==
    /\ 0 < steps /\ steps < MaxSteps
    /\ ~view.pending_resize
    /\ view' = setGeometry(view, view.left, view.top, width, height)
    /\ steps' = steps + 1
    /\ UNCHANGED <<inner, sceneRect, proxyRect, event, earlier>>
    /\ UNCHANGED toolVars

\* the state the handler leaves
Handled(after) ==
    /\ view' = after.self
    /\ inner' = after.widget
    /\ sceneRect' = after.scene
    /\ proxyRect' = after.proxy
    /\ event' = after.event

\* Qt delivers the resize event that is due
ResizeEvent ==
    /\ 0 < steps
    /\ view.pending_resize
    /\ Handled(resizeEvent(view, inner, sceneRect, proxyRect))
    /\ UNCHANGED <<earlier, steps>>
    /\ UNCHANGED toolVars

\* the client calls update_size_policy()
UpdateSizePolicy ==
    /\ 0 < steps /\ steps < MaxSteps
    /\ steps' = steps + 1
    /\ UNCHANGED <<inner, sceneRect, proxyRect, event, earlier>>
    /\ view' = update_size_policy(view, inner)
    /\ UNCHANGED toolVars

\* the client builds the next RotatedWidget, at another angle, around a
\* widget like the one this RotatedWidget was built around, once the first
\* one is shown
BuildNext(widget, angle) ==
    /\ steps = 1
    /\ event.handled /\ ~earlier.handled
    /\ Becomes(RotatedWidget(widget, angle, view.preserve_aspect_ratio))
    /\ inner' = widget
    /\ earlier' = event
    /\ event' = NoEvent
    /\ steps' = steps + 1
    /\ UNCHANGED toolVars

\* no RotatedWidget is built while tools.py is called
NoView ==
    /\ Unbuilt(WrappedWidget(Fixed, Fixed, CHOOSE l \in WidgetLimits : l.minimumWidth = 0),
               0, FALSE)
    /\ event = NoEvent
    /\ earlier = NoEvent

\* the calls a client makes, with arguments from the input sets
Init ==
    /\ NoView
    /\ prev = NoCall
    /\ \/ \E h \in Policies, v \in Policies :
             call = [NoCall EXCEPT !.fn = "combine_size_policies",
                                   !.horizontal_policy = h, !.vertical_policy = v]
       \/ \E angle \in Angles :
             call = [NoCall EXCEPT !.fn = "get_quadrant_or_axis", !.angle = angle]
       \/ \E w \in Dims \cup BadDims, h \in Dims \cup BadDims, angle \in Angles :
             call = [NoCall EXCEPT !.fn = "get_rotated_dimensions",
                                   !.width = FInt(w), !.height = FInt(h), !.angle = angle]
       \/ \E rw \in Dims \cup BadDims, rh \in Dims \cup BadDims, angle \in Angles,
             cw \in OptDims(Dims \cup BadDims), ch \in OptDims(Dims \cup BadDims) :
             call = [NoCall EXCEPT !.fn = "get_original_dimensions",
                                   !.width = FInt(rw), !.height = FInt(rh), !.angle = angle,
                                   !.current_width = cw, !.current_height = ch]

Next ==
    \/ CallCombineSizePolicies
    \/ CallGetQuadrantOrAxis
    \/ CallGetRotatedDimensions
    \/ CallGetOriginalDimensions
    \/ CallOriginalOfRotated
    \/ CallRotatedOfOriginal

Spec == Init /\ [][Next]_vars

\* the RotatedWidgets a client builds
InitView ==
    /\ call = NoCall
    /\ prev = NoCall
    /\ event = NoEvent
    /\ earlier = NoEvent
    /\ \E h \in ViewPolicies, v \in ViewPolicies, limits \in WidgetLimits,
          angle \in ViewAngles, preserve_aspect_ratio \in BOOLEAN :
          Unbuilt(WrappedWidget(h, v, limits), angle, preserve_aspect_ratio)

NextView ==
    \/ Construct
    \/ \E size \in LayoutSizes : LayoutResize(size[1], size[2])
    \/ ResizeEvent
    \/ UpdateSizePolicy
    \/ \E angle \in ViewAngles :
          BuildNext([inner EXCEPT !.width = 20, !.height = 10, !.pending_resize = FALSE], angle)

SpecView == InitView /\ [][NextView]_vars

(***************************************************************************)
(* Properties of tools.py                                                  *)
(***************************************************************************)
NonNegative(x) == FSign(x) >= 0

Positive(x) == FSign(x) > 0

IsRoundTrip ==
    /\ call.fn = "get_original_dimensions" /\ call.done
    /\ prev.fn = "get_rotated_dimensions"

\* the forward mapping of what a fresh get_original_dimensions returned
IsFitCheck ==
    /\ call.fn = "get_rotated_dimensions" /\ call.done
    /\ prev.fn = "get_original_dimensions"

\* C1: mapping a rectangle of positive width and height forward and then
\* back, with the rectangle's own width and height as current_width and
\* current_height, gives the rectangle again (up to rounding residue), at
\* multiples of 90 degrees, in the 45-degree family and at general angles.
C1_RoundTrip ==
    (IsRoundTrip /\ Positive(prev.width) /\ Positive(prev.height))
        => /\ call.dims.exc = "none"
           /\ FNear(call.dims.width, prev.width)
           /\ FNear(call.dims.height, prev.height)

C1_Witness ==
    /\ IsRoundTrip
    /\ prev.angle = 45
    /\ prev.width = FInt(20) /\ prev.height = FInt(10)
    /\ FNear(call.dims.width, FInt(20)) /\ FNear(call.dims.height, FInt(10))

C3_RightAngleIdentity ==
    (call.fn = "get_rotated_dimensions" /\ call.done /\ prev.fn = "none")
        => /\ call.angle % 180 = 0
              => call.dims.width = call.width /\ call.dims.height = call.height
           /\ (call.angle % 90 = 0 /\ call.angle % 180 # 0)
              => call.dims.width = call.height /\ call.dims.height = call.width

IsCombine == call.fn = "combine_size_policies" /\ call.done

\* C4: combine_size_policies is commutative and idempotent over the seven
\* policies, and combine(Fixed, Expanding) is Expanding.  The state holds
\* combine(h, v); it is compared with the same function on (v, h).
C4_CommutativeIdempotent ==
    IsCombine
        => /\ call.policy = combine_size_policies(call.vertical_policy, call.horizontal_policy)
           /\ call.horizontal_policy = call.vertical_policy => call.policy = call.horizontal_policy
           /\ (call.horizontal_policy = Fixed /\ call.vertical_policy = Expanding)
                 => call.policy = Expanding

C4_Witness ==
    /\ IsCombine
    /\ call.horizontal_policy = Fixed /\ call.vertical_policy = Expanding
    /\ call.policy = Expanding

\* bit i of n
Bit(n, i) == (n \div (2 ^ i)) % 2

\* the bitwise OR of two flag values, bit by bit
FlagUnion(h, v) ==
    CHOOSE n \in 0..15 : \A i \in 0..3 : Bit(n, i) = 1 <=> (Bit(h, i) = 1 \/ Bit(v, i) = 1)

PositionOf(p) == CHOOSE i \in 1..Len(policy_order) : policy_order[i] = p

\* C5: the result is one of the seven policies, at the same position or
\* later than both arguments in policy_order, and it is the first policy of
\* that order whose flag value is >= the bitwise OR of the arguments, or
\* Ignored when no flag value is.
C5_FirstSuperiorPolicy ==
    IsCombine
        => LET union == FlagUnion(call.horizontal_policy, call.vertical_policy)
               superior == {i \in 1..Len(policy_order) : policy_order[i] >= union}
           IN  /\ call.policy \in Policies
               /\ PositionOf(call.policy) >= PositionOf(call.horizontal_policy)
               /\ PositionOf(call.policy) >= PositionOf(call.vertical_policy)
               /\ IF superior = {} THEN call.policy = Ignored
                  ELSE /\ PositionOf(call.policy) \in superior
                       /\ \A i \in superior : PositionOf(call.policy) <= i

\* MinimumExpanding | Ignored = 15 exceeds every flag value
C5_Witness ==
    /\ IsCombine
    /\ call.horizontal_policy = MinimumExpanding /\ call.vertical_policy = Ignored
    /\ call.policy = Ignored

\* the angle in [0, 360) that differs from angle by a multiple of 360
Wrapped(angle) == CHOOSE n \in 0..359 : \E k \in -3..3 : angle = n + 360 * k

\* C6: get_quadrant_or_axis returns one of the 8 variants, decided by the
\* angle wrapped into [0, 360): an axis variant exactly at 0, 90, 180, 270
\* and otherwise the open quadrant that holds the wrapped angle.
C6_ClassificationTotal ==
    (call.fn = "get_quadrant_or_axis" /\ call.done)
        => LET n == Wrapped(call.angle)
           IN  /\ call.quadrant \in QuadrantOrAxis
               /\ call.quadrant = "POSITIVE_X_AXIS" <=> n = 0
               /\ call.quadrant = "POSITIVE_Y_AXIS" <=> n = 90
               /\ call.quadrant = "NEGATIVE_X_AXIS" <=> n = 180
               /\ call.quadrant = "NEGATIVE_Y_AXIS" <=> n = 270
               /\ call.quadrant = "QUADRANT_1" <=> (0 < n /\ n < 90)
               /\ call.quadrant = "QUADRANT_2" <=> (90 < n /\ n < 180)
               /\ call.quadrant = "QUADRANT_3" <=> (180 < n /\ n < 270)
               /\ call.quadrant = "QUADRANT_4" <=> (270 < n /\ n < 360)

C6_Witness ==
    /\ call.fn = "get_quadrant_or_axis" /\ call.done
    /\ call.angle = -90
    /\ call.quadrant = "NEGATIVE_Y_AXIS"

\* C7: with non-negative arguments, both components returned by
\* get_original_dimensions and by get_rotated_dimensions are >= 0.
C7_OutputNonNegative ==
    (/\ call.fn \in {"get_original_dimensions", "get_rotated_dimensions"}
     /\ call.done /\ prev.fn = "none"
     /\ NonNegative(call.width) /\ NonNegative(call.height)
     /\ NonNegative(call.current_width.v) /\ NonNegative(call.current_height.v))
        => /\ call.dims.exc = "none"
           /\ NonNegative(call.dims.width)
           /\ NonNegative(call.dims.height)

\* C8: a call of get_rotated_dimensions or get_original_dimensions with a
\* negative width or height (or known dimension) gives an error, not numbers.
C8_NegativeInputReported ==
    (/\ call.fn \in {"get_original_dimensions", "get_rotated_dimensions"}
     /\ call.done /\ prev.fn = "none"
     /\ \/ FSign(call.width) < 0 \/ FSign(call.height) < 0
        \/ FSign(call.current_width.v) < 0 \/ FSign(call.current_height.v) < 0)
        => call.dims.exc # "none"

(***************************************************************************)
(* Properties of RotatedWidget                                             *)
(***************************************************************************)
\* the view's minimum and maximum equal the rounded rotated size on every
\* axis where the view's policy is Fixed; rotated is the rotated size of the
\* wrapped widget
PinnedTo(self, rotated) ==
    /\ self.horizontal_policy = Fixed
          => /\ self.minimumWidth = round(rotated.width)
             /\ self.maximumWidth = round(rotated.width)
    /\ self.vertical_policy = Fixed
          => /\ self.minimumHeight = round(rotated.height)
             /\ self.maximumHeight = round(rotated.height)

\* C9: when update_size_policy has run (in __init__ or called by the client),
\* at every angle, on each axis where the view's policy is then Fixed the
\* view's minimum and maximum both equal the rounded rotated size of the
\* wrapped widget on that axis.
C9_FixedPinned ==
    [][(Construct \/ UpdateSizePolicy)
          => PinnedTo(view', get_rotated_dimensions(FInt(inner'.width), FInt(inner'.height),
                                                    view'.angle))]_vars

\* the handlers moved the same edges of the scene's rectangle, each by the
\* same expression of the code
SameAdjustment(e1, e2) ==
    /\ e1.left.moved = e2.left.moved /\ e1.left.rule = e2.left.rule
    /\ e1.top.moved = e2.top.moved /\ e1.top.rule = e2.top.rule

\* C10: what resizeEvent does to the scene's rectangle goes by
\* get_quadrant_or_axis(angle): two RotatedWidgets whose angles are classified
\* differently do not get the same adjustment (the same edges moved by the
\* same amounts), and at 135 degrees both the left and the top edge move.
C10_DistinctAnchors ==
    /\ (event.handled /\ event.exc = "none")
          => /\ event.quadrant_or_axis = get_quadrant_or_axis(view.angle)
             /\ view.angle = 135 => (event.left.moved /\ event.top.moved)
    /\ (/\ event.handled /\ event.exc = "none"
        /\ earlier.handled /\ earlier.exc = "none"
        /\ event.quadrant_or_axis # earlier.quadrant_or_axis)
          => ~SameAdjustment(event, earlier)

\* the angle in [0, 360) among those a whole number of turns away from angle
Turned(angle) == CHOOSE n \in {angle + 360 * k : k \in -3..3} : 0 <= n /\ n < 360

\* the pair of policies the three-way branch gives a view at angle n in
\* [0, 360) around a widget with policies (horizontal, vertical)
BranchPolicies(n, horizontal, vertical) ==
    IF n \in {0, 180} THEN <<horizontal, vertical>>
    ELSE IF n \in {90, 270} THEN <<vertical, horizontal>>
    ELSE <<combine_size_policies(horizontal, vertical),
           combine_size_policies(horizontal, vertical)>>

\* the limits (minimum or maximum width and height) the three-way branch
\* names: the widget's as they are, swapped, or their rounded forward mapping
BranchLimits(n, width, height, rotated) ==
    IF n \in {0, 180} THEN <<width, height>>
    ELSE IF n \in {90, 270} THEN <<height, width>>
    ELSE <<round(rotated.width), round(rotated.height)>>

BranchMinimum(widget, angle) ==
    BranchLimits(Turned(angle), widget.minimumWidth, widget.minimumHeight,
                 get_rotated_dimensions(FInt(widget.minimumWidth),
                                        FInt(widget.minimumHeight), angle))

BranchMaximum(widget, angle) ==
    BranchLimits(Turned(angle), widget.maximumWidth, widget.maximumHeight,
                 get_rotated_dimensions(FInt(widget.maximumWidth),
                                        FInt(widget.maximumHeight), angle))

HasBranchPolicies(self, widget) ==
    <<self.horizontal_policy, self.vertical_policy>>
        = BranchPolicies(Turned(self.angle), widget.horizontal_policy, widget.vertical_policy)

\* C11 as claimed: after update_size_policy the view's policies are the
\* widget's at 0/180, swapped at 90/270 and the combined policy on both axes
\* at any other angle, and the view's minimum and maximum sizes are the
\* widget's unchanged, swapped, or their rounded forward mapping.
C11_ThreeWayBranch ==
    [][(Construct \/ UpdateSizePolicy)
          => /\ HasBranchPolicies(view', inner')
             /\ <<view'.minimumWidth, view'.minimumHeight>> = BranchMinimum(inner', view'.angle)
             /\ <<view'.maximumWidth, view'.maximumHeight>> = BranchMaximum(inner', view'.angle)]_vars

\* what update_size_policy leaves as minimum and maximum on one axis: policy
\* is the view's policy on the axis, lower and upper the limits of the branch
\* held to Qt's largest widget size, size the rounded rotated size
AxisLimits(n, policy, lower, upper, size, minimum, maximum) ==
    /\ (policy = Fixed /\ n % 90 = 0) => (minimum = size /\ maximum = size)
    /\ policy \in {Minimum, MinimumExpanding}
          => /\ minimum = IMax(IMin(lower, QWIDGETSIZE_MAX), size)
             /\ maximum = IMin(upper, QWIDGETSIZE_MAX)
    /\ policy = Maximum
          => /\ minimum = IMin(lower, QWIDGETSIZE_MAX)
             /\ maximum = IMin(IMin(upper, QWIDGETSIZE_MAX), size)
    /\ policy \in {Preferred, Expanding, Ignored}
          => /\ minimum = IMin(lower, QWIDGETSIZE_MAX)
             /\ maximum = IMin(upper, QWIDGETSIZE_MAX)

HasBranchLimits(self, lower, upper, rotated) ==
    /\ AxisLimits(Turned(self.angle), self.horizontal_policy, lower[1], upper[1],
                  round(rotated.width), self.minimumWidth, self.maximumWidth)
    /\ AxisLimits(Turned(self.angle), self.vertical_policy, lower[2], upper[2],
                  round(rotated.height), self.minimumHeight, self.maximumHeight)

\* C11 amended: after update_size_policy the view's policies are those of
\* the three-way branch.  On an axis whose policy is Preferred, Expanding or
\* Ignored the minimum and maximum are those of the branch, held to Qt's
\* largest widget size; on a Minimum or MinimumExpanding axis the minimum is
\* raised to the rounded rotated size when that is larger, on a Maximum axis
\* the maximum is lowered to it when that is smaller, and on a Fixed axis at a
\* multiple of 90 degrees both are the rounded rotated size.
C11_BranchWithClamps ==
    [][(Construct \/ UpdateSizePolicy)
          => /\ HasBranchPolicies(view', inner')
             /\ HasBranchLimits(view', BranchMinimum(inner', view'.angle),
                                BranchMaximum(inner', view'.angle),
                                get_rotated_dimensions(FInt(inner'.width), FInt(inner'.height),
                                                       view'.angle))]_vars

\* a view at 37 degrees around a (Minimum, Expanding) widget of 20 x 10 with
\* limits 10 x 5 and 40 x 30: Expanding on both axes, limits 11 x 10 and 50 x 48
C11_Witness ==
    /\ steps > 0
    /\ view.angle = 37
    /\ inner.horizontal_policy = Minimum /\ inner.vertical_policy = Expanding
    /\ inner.minimumWidth = 10 /\ inner.maximumWidth = 40
    /\ view.horizontal_policy = Expanding /\ view.vertical_policy = Expanding
    /\ <<view.minimumWidth, view.minimumHeight>> = <<11, 10>>
    /\ <<view.maximumWidth, view.maximumHeight>> = <<50, 48>>

\* what the branch of get_original_dimensions for the 45-degree family gives
\* for the arguments of call
DedicatedBranchResult ==
    original_45_family(call.width, call.height,
                       aspect_ratio_of(call.current_width, call.current_height),
                       call.current_width, call.current_height)

\* C12: get_original_dimensions divides neither by zero nor by a cos(2*theta)
\* of the size of a rounding residue: no call ends in a ZeroDivisionError, no
\* returned component is a quotient by a rounding residue, and at 45, 135, 225
\* and 315 degrees (any number of turns added) the result is that of the
\* branch for the 45-degree family.  Stated for the calls whose arguments are
\* all non-negative, which no reading of the contract excludes.
C12_ZeroDenominatorGuarded ==
    (/\ call.fn = "get_original_dimensions" /\ call.done /\ prev.fn = "none"
     /\ NonNegative(call.width) /\ NonNegative(call.height)
     /\ NonNegative(call.current_width.v) /\ NonNegative(call.current_height.v))
        => /\ call.dims.exc = "none"
           /\ ~FIsHuge(call.dims.width) /\ ~FIsHuge(call.dims.height)
           /\ Wrapped(call.angle) % 90 = 45 => call.dims = DedicatedBranchResult

=============================================================================
